---- MODULE Spec2Model ----
(***************************************************************************)
(* Model of proposals/models.py: talk and tutorial proposals, their        *)
(* co-speaker rows (AdditionalSpeaker), the PrimarySpeaker wrapper, the    *)
(* ProposalQuerySet filters and the completion metrics.                    *)
(*                                                                         *)
(* The store is a pair of proposal tables (one per variant) and one        *)
(* AdditionalSpeaker table.  Every operation is one atomic step; `last`    *)
(* holds what the most recent operation returned.                          *)
(***************************************************************************)
EXTENDS Integers, Sequences, FiniteSets, TLC

VARIABLES proposals, rows, last, fields, lhs, rhs

vars == <<proposals, rows, last, fields, lhs, rhs>>

(* ------------------------------ bounds --------------------------------- *)

\* Number of AdditionalSpeaker rows that are ever inserted.
MaxRows == 2

(* ------------------------- program constants --------------------------- *)

\* Primary keys of the content types of the two concrete proposal models.
TalkProposal == 1
TutorialProposal == 2

ProposalTypes == {TalkProposal, TutorialProposal}

\* User accounts (settings.AUTH_USER_MODEL rows) and proposal primary keys.
Users == {"alice", "bob"}
ProposalIds == {1}

SPEAKING_STATUS_PENDING == "pending"
SPEAKING_STATUS_ACCEPTED == "accepted"
SPEAKING_STATUS_DECLINED == "declined"
SPEAKING_STATUS ==
    {SPEAKING_STATUS_PENDING, SPEAKING_STATUS_ACCEPTED, SPEAKING_STATUS_DECLINED}

\* NullBooleanField values of AbstractProposal.accepted.
ACCEPTED_CHOICES == {"None", "True", "False"}

\* Python's None for a user and for a proposal reference.
NoUser == "None"
NoProposal == [type |-> 0, id |-> 0]

ProposalKeys == [type : ProposalTypes, id : ProposalIds]

(* --------------------------- optional hooks ---------------------------- *)

\* An instance attribute that may be missing (reading it raises
\* AttributeError): <<>> when missing, <<v>> when set to v.
NoAttr == <<>>
Attr(v) == <<v>>
HasAttr(a) == Len(a) = 1
GetAttr(a) == a[1]

(* ------------------------ AdditionalSpeaker table ---------------------- *)

\* unique_together = ['user', 'proposal_type', 'proposal_id']
unique_together_NoType(r) == <<r.user, r.proposal_id>>
unique_together(r) == <<r.user, r.proposal_type, r.proposal_id>>

\* ordering = ['proposal_type', 'proposal_id', 'pk'] as a strict order.
ordering_Reversed(a, b) ==
    \/ a.proposal_type < b.proposal_type
    \/ a.proposal_type = b.proposal_type /\ a.proposal_id < b.proposal_id
    \/ a.proposal_type = b.proposal_type /\ a.proposal_id = b.proposal_id
                                         /\ a.pk > b.pk
ordering(a, b) ==
    \/ a.proposal_type < b.proposal_type
    \/ a.proposal_type = b.proposal_type /\ a.proposal_id < b.proposal_id
    \/ a.proposal_type = b.proposal_type /\ a.proposal_id = b.proposal_id
                                         /\ a.pk < b.pk

\* A queryset of AdditionalSpeaker rows evaluated: the rows of S in Meta.ordering.
RECURSIVE OrderBy(_)
OrderBy(S) ==
    IF S = {} THEN <<>>
    ELSE LET first == CHOOSE r \in S : \A o \in S \ {r} : ordering(r, o)
         IN <<first>> \o OrderBy(S \ {first})

\* The primary key the table's sequence gives the next inserted row.
NextPk == Cardinality(rows) + 1

\* GenericRelation additionalspeaker_set of proposal p: the rows whose
\* (proposal_type, proposal_id) pair names p.
additionalspeaker_set(p) ==
    {r \in rows : r.proposal_type = p.type /\ r.proposal_id = p.id}

(* ----------------------------- PrimarySpeaker -------------------------- *)

\* PrimarySpeaker.__init__: "ValueError" or the constructed instance.
PrimarySpeaker_OrGuard(proposal, user) ==
    IF proposal = NoProposal \/ user = NoUser
    THEN [cls |-> "ValueError", user |-> NoUser, proposal |-> NoProposal]
    ELSE [cls |-> "PrimarySpeaker",
          user |-> IF user # NoUser THEN user ELSE proposals[proposal].submitter,
          proposal |-> proposal]
PrimarySpeaker(proposal, user) ==
    IF proposal = NoProposal /\ user = NoUser
    THEN [cls |-> "ValueError", user |-> NoUser, proposal |-> NoProposal]
    ELSE [cls |-> "PrimarySpeaker",
          user |-> IF user # NoUser THEN user ELSE proposals[proposal].submitter,
          proposal |-> proposal]

(* ------------------- AbstractProposal.speakers / speaker_count --------- *)

\* The queryset additionalspeaker_set.filter(cancelled=False), evaluated.
NonCancelled_All(p) == OrderBy(additionalspeaker_set(p))
NonCancelled(p) == OrderBy({r \in additionalspeaker_set(p) : ~r.cancelled})

\* The documented Prefetch: one query over the whole table
\* (AdditionalSpeaker.objects.filter(cancelled=False)), its rows handed to
\* each proposal's _additional_speakers in the order the query returned them.
Prefetched(p) ==
    LET all == OrderBy({r \in rows : ~r.cancelled})
    IN SelectSeq(all, LAMBDA r : r.proposal_type = p.type /\ r.proposal_id = p.id)

\* Iterating p.speakers to the end, on an instance with optional attributes
\* _additional_speaker_count (cnt) and _additional_speakers (lst): the items
\* yielded and the number of queries issued against additionalspeaker_set.
speakers_AlwaysQuery(p, cnt, lst) ==
    LET primary == <<PrimarySpeaker(p, NoUser)>>
    IN IF HasAttr(cnt) /\ GetAttr(cnt) < 1
       THEN [items |-> primary, lookups |-> 0]
       ELSE [items |-> primary \o NonCancelled(p), lookups |-> 1]
speakers(p, cnt, lst) ==
    LET primary == <<PrimarySpeaker(p, NoUser)>>
    IN IF HasAttr(cnt) /\ GetAttr(cnt) < 1
       THEN [items |-> primary, lookups |-> 0]
       ELSE IF HasAttr(lst)
       THEN [items |-> primary \o GetAttr(lst), lookups |-> 0]
       ELSE [items |-> primary \o NonCancelled(p), lookups |-> 1]

\* p.speaker_count on the same instance: the value and the queries issued.
speaker_count_NoPlusOne(p, cnt, lst) ==
    IF HasAttr(cnt)
    THEN [count |-> GetAttr(cnt), lookups |-> 0]
    ELSE [count |-> Len(NonCancelled(p)), lookups |-> 1]
speaker_count(p, cnt, lst) ==
    IF HasAttr(cnt)
    THEN [count |-> GetAttr(cnt) + 1, lookups |-> 0]
    ELSE [count |-> Len(NonCancelled(p)) + 1, lookups |-> 1]

(* --------------------------- ProposalQuerySet -------------------------- *)

\* The table of one concrete proposal model: the queryset the filters start from.
Table(t) == {p \in ProposalKeys : p.type = t}

\* user.cospeaking_info_set.all(): the co-speaker records of the user.
cospeaking_info_set(u) == {r \in rows : r.user = u}

\* A queryset of proposals is a bag: how many times each proposal of the
\* table occurs in the result.
InQuerySet(qs, p) == qs[p] > 0

\* filter(cancelled=False, accepted=True)
filter_accepted_CancelledKept(t) ==
    [p \in Table(t) |-> IF proposals[p].accepted = "True" THEN 1 ELSE 0]
filter_accepted(t) ==
    [p \in Table(t) |->
        IF ~proposals[p].cancelled /\ proposals[p].accepted = "True" THEN 1 ELSE 0]

\* filter(Q(submitter=user) | Q(additionalspeaker_set__in=...)): the table is
\* left-joined to its co-speaker rows, and every joined row that passes the
\* condition contributes its proposal once.
filter_viewable(t, u) ==
    LET mine == {r.pk : r \in cospeaking_info_set(u)}
    IN [p \in Table(t) |->
          IF additionalspeaker_set(p) = {}
          THEN IF proposals[p].submitter = u THEN 1 ELSE 0
          ELSE Cardinality({r \in additionalspeaker_set(p) :
                              proposals[p].submitter = u \/ r.pk \in mine})]

\* exclude(Q(cancelled=True) | Q(submitter=user) |
\*         Q(additionalspeaker_set__in=...)): the multi-valued condition is a
\* subquery on the proposal's key, so no proposal occurs twice.
filter_reviewable_OwnKept(t, u) ==
    LET coauthored == {r.proposal_id : r \in {c \in cospeaking_info_set(u) :
                                                c.proposal_type = t}}
    IN [p \in Table(t) |->
          IF \/ proposals[p].cancelled
             \/ p.id \in coauthored
          THEN 0 ELSE 1]
filter_reviewable(t, u) ==
    LET coauthored == {r.proposal_id : r \in {c \in cospeaking_info_set(u) :
                                                c.proposal_type = t}}
    IN [p \in Table(t) |->
          IF \/ proposals[p].cancelled
             \/ proposals[p].submitter = u
             \/ p.id \in coauthored
          THEN 0 ELSE 1]

(* -------------------------- completion metrics ------------------------- *)

_must_fill_fields ==
    <<"abstract", "objective", "supplementary", "detailed_description", "outline">>

\* Values a text field may hold; Python takes a string as true unless it is empty.
FieldValues == {"", " ", "text"}
Truthy(v) == v # ""

must_fill_fields_count == Len(_must_fill_fields)

finished_fields_count ==
    Cardinality({i \in 1..Len(_must_fill_fields) : Truthy(fields[_must_fill_fields[i]])})

finish_percentage_DivideFirst ==
    100 * (finished_fields_count \div must_fill_fields_count)
finish_percentage == (100 * finished_fields_count) \div must_fill_fields_count

unfinished_fields_count == must_fill_fields_count - finished_fields_count

(* ------------------------- PrimarySpeaker.__eq__ ----------------------- *)

PrimarySpeaker_eq_UserOnly(self, other) ==
    /\ other.cls = "PrimarySpeaker"
    /\ self.user = other.user
PrimarySpeaker_eq(self, other) ==
    /\ other.cls = "PrimarySpeaker"
    /\ self.user = other.user
    /\ self.proposal = other.proposal

(* ------------------------------ the store ------------------------------ *)

\* The value of `last` before any operation has run.
NoCall == [op |-> "none"]

InitStore ==
    /\ proposals \in [ProposalKeys ->
                        [submitter : Users, cancelled : {FALSE},
                         accepted : {"None"}]]
    /\ rows = {}
    /\ last = NoCall

\* A proposal form with nothing filled in, and two empty object slots.
NoObject == [cls |-> "None", user |-> NoUser, proposal |-> NoProposal]

InitIdle ==
    /\ fields = [i \in {_must_fill_fields[k] : k \in 1..Len(_must_fill_fields)} |-> ""]
    /\ lhs = NoObject
    /\ rhs = NoObject

\* AdditionalSpeaker.objects.create(user=u, proposal=p): the insert fails
\* with IntegrityError when unique_together is already taken.
CreateAdditionalSpeaker(u, p) ==
    LET new == [pk |-> NextPk, user |-> u,
                proposal_type |-> p.type, proposal_id |-> p.id,
                status |-> SPEAKING_STATUS_PENDING, cancelled |-> FALSE]
        conflict == \E r \in rows : unique_together(r) = unique_together(new)
    IN /\ Cardinality(rows) < MaxRows
       /\ rows' = IF conflict THEN rows ELSE rows \cup {new}
       /\ last' = [op |-> "create", user |-> u, proposal |-> p,
                   result |-> IF conflict THEN "IntegrityError" ELSE "created"]
       /\ UNCHANGED <<proposals, fields, lhs, rhs>>

\* Saving a row with a new value of its cancelled flag.
SetSpeakerCancelled(r, b) ==
    /\ r \in rows
    /\ r.cancelled # b
    /\ rows' = (rows \ {r}) \cup {[r EXCEPT !.cancelled = b]}
    /\ last' = [op |-> "save"]
    /\ UNCHANGED <<proposals, fields, lhs, rhs>>

\* Saving a row with a new value of its status.
SetSpeakerStatus(r, s) ==
    /\ r \in rows
    /\ r.status # s
    /\ rows' = (rows \ {r}) \cup {[r EXCEPT !.status = s]}
    /\ last' = [op |-> "save"]
    /\ UNCHANGED <<proposals, fields, lhs, rhs>>

\* Saving a proposal with a new value of its cancelled flag.
SetProposalCancelled(p, b) ==
    /\ proposals[p].cancelled # b
    /\ proposals' = [proposals EXCEPT ![p].cancelled = b]
    /\ last' = [op |-> "save"]
    /\ UNCHANGED <<rows, fields, lhs, rhs>>

\* The values a caller may have put in the two optional attributes.
CountHooks == {NoAttr} \cup {Attr(n) : n \in 0..MaxRows}
ListHooks(p) == {NoAttr, Attr(Prefetched(p))}

ReadSpeakers(p, cnt, lst) ==
    /\ last' = [op |-> "speakers", proposal |-> p, cnt |-> cnt, lst |-> lst,
                result |-> speakers(p, cnt, lst)]
    /\ UNCHANGED <<proposals, rows, fields, lhs, rhs>>

ReadSpeakerCount(p, cnt, lst) ==
    /\ last' = [op |-> "speaker_count", proposal |-> p, cnt |-> cnt, lst |-> lst,
                result |-> speaker_count(p, cnt, lst)]
    /\ UNCHANGED <<proposals, rows, fields, lhs, rhs>>

\* Saving a proposal with a new value of its accepted flag.
SetProposalAccepted(p, a) ==
    /\ proposals[p].accepted # a
    /\ proposals' = [proposals EXCEPT ![p].accepted = a]
    /\ last' = [op |-> "save"]
    /\ UNCHANGED <<rows, fields, lhs, rhs>>

FilterAccepted(t) ==
    /\ last' = [op |-> "filter_accepted", type |-> t, result |-> filter_accepted(t)]
    /\ UNCHANGED <<proposals, rows, fields, lhs, rhs>>

FilterViewable(t, u) ==
    /\ last' = [op |-> "filter_viewable", type |-> t, user |-> u,
                result |-> filter_viewable(t, u)]
    /\ UNCHANGED <<proposals, rows, fields, lhs, rhs>>

FilterReviewable(t, u) ==
    /\ last' = [op |-> "filter_reviewable", type |-> t, user |-> u,
                result |-> filter_reviewable(t, u)]
    /\ UNCHANGED <<proposals, rows, fields, lhs, rhs>>

\* Assigning a value to one of the text fields of a proposal instance.
SetField(f, v) ==
    /\ fields[f] # v
    /\ fields' = [fields EXCEPT ![f] = v]
    /\ last' = [op |-> "setattr"]
    /\ UNCHANGED <<proposals, rows, lhs, rhs>>

ReadFinishedFieldsCount ==
    /\ last' = [op |-> "finished_fields_count", result |-> finished_fields_count]
    /\ UNCHANGED <<proposals, rows, fields, lhs, rhs>>

ReadFinishPercentage ==
    /\ last' = [op |-> "finish_percentage", result |-> finish_percentage]
    /\ UNCHANGED <<proposals, rows, fields, lhs, rhs>>

ReadUnfinishedFieldsCount ==
    /\ last' = [op |-> "unfinished_fields_count", result |-> unfinished_fields_count]
    /\ UNCHANGED <<proposals, rows, fields, lhs, rhs>>

\* PrimarySpeaker(proposal=proposal, user=user), its value bound to a slot
\* unless the constructor raised.
Construct(left, proposal, user) ==
    LET made == PrimarySpeaker(proposal, user)
        ok == made.cls = "PrimarySpeaker"
    IN /\ lhs' = IF ok /\ left THEN made ELSE lhs
       /\ rhs' = IF ok /\ ~left THEN made ELSE rhs
       /\ last' = [op |-> "construct", left |-> left, proposal |-> proposal,
                   user |-> user, result |-> made.cls]
       /\ UNCHANGED <<proposals, rows, fields>>

\* An AdditionalSpeaker instance for (user, proposal) bound to the right slot.
TakeAdditionalSpeaker(u, p) ==
    /\ rhs' = [cls |-> "AdditionalSpeaker", user |-> u, proposal |-> p]
    /\ last' = [op |-> "bind"]
    /\ UNCHANGED <<proposals, rows, fields, lhs>>

\* lhs == rhs, dispatched to PrimarySpeaker.__eq__ of the left operand.
Compare ==
    /\ lhs.cls = "PrimarySpeaker"
    /\ rhs.cls # "None"
    /\ last' = [op |-> "eq", result |-> PrimarySpeaker_eq(lhs, rhs)]
    /\ UNCHANGED <<proposals, rows, fields, lhs, rhs>>

(* ----------- specification: co-speaker rows and unhooked reads ---------- *)

Init == InitStore /\ InitIdle

Next ==
    \/ \E u \in Users, p \in ProposalKeys : CreateAdditionalSpeaker(u, p)
    \/ \E r \in rows, b \in BOOLEAN : SetSpeakerCancelled(r, b)
    \/ \E r \in rows, s \in SPEAKING_STATUS : SetSpeakerStatus(r, s)
    \/ \E p \in ProposalKeys, b \in BOOLEAN : SetProposalCancelled(p, b)
    \/ \E p \in ProposalKeys : ReadSpeakers(p, NoAttr, NoAttr)
    \/ \E p \in ProposalKeys : ReadSpeakerCount(p, NoAttr, NoAttr)

Spec == Init /\ [][Next]_vars

(* ------------- specification: reads on annotated instances ------------- *)

NextHooks ==
    \/ \E u \in Users, p \in ProposalKeys : CreateAdditionalSpeaker(u, p)
    \/ \E r \in rows, b \in BOOLEAN : SetSpeakerCancelled(r, b)
    \/ \E p \in ProposalKeys, cnt \in CountHooks :
          \E lst \in ListHooks(p) : ReadSpeakers(p, cnt, lst)
    \/ \E p \in ProposalKeys, cnt \in CountHooks :
          \E lst \in ListHooks(p) : ReadSpeakerCount(p, cnt, lst)

SpecHooks == Init /\ [][NextHooks]_vars

(* ------------------ specification: visibility filters ----------------- *)

NextVisibility ==
    \/ \E u \in Users, p \in ProposalKeys : CreateAdditionalSpeaker(u, p)
    \/ \E r \in rows, b \in BOOLEAN : SetSpeakerCancelled(r, b)
    \/ \E r \in rows, s \in SPEAKING_STATUS : SetSpeakerStatus(r, s)
    \/ \E p \in ProposalKeys, b \in BOOLEAN : SetProposalCancelled(p, b)
    \/ \E t \in ProposalTypes, u \in Users : FilterViewable(t, u)
    \/ \E t \in ProposalTypes, u \in Users : FilterReviewable(t, u)

SpecVisibility == Init /\ [][NextVisibility]_vars

(* ------------------ specification: accepted proposals ------------------ *)

NextAccepted ==
    \/ \E p \in ProposalKeys, b \in BOOLEAN : SetProposalCancelled(p, b)
    \/ \E p \in ProposalKeys, a \in ACCEPTED_CHOICES : SetProposalAccepted(p, a)
    \/ \E t \in ProposalTypes : FilterAccepted(t)

SpecAccepted == Init /\ [][NextAccepted]_vars

(* ------------------ specification: completion metrics ------------------ *)

NextFields ==
    \/ \E f \in DOMAIN fields, v \in FieldValues : SetField(f, v)
    \/ ReadFinishedFieldsCount
    \/ ReadFinishPercentage
    \/ ReadUnfinishedFieldsCount

SpecFields == Init /\ [][NextFields]_vars

(* -------------------- specification: PrimarySpeaker -------------------- *)

NextPrimary ==
    \/ \E left \in BOOLEAN, proposal \in ProposalKeys \cup {NoProposal},
          user \in Users \cup {NoUser} : Construct(left, proposal, user)
    \/ \E u \in Users, p \in ProposalKeys : TakeAdditionalSpeaker(u, p)
    \/ Compare

SpecPrimary == Init /\ [][NextPrimary]_vars

(* ------------------------------- claims -------------------------------- *)

\* The non-cancelled rows attached to p, read straight off the table.
LiveRowsOf(p) ==
    {r \in rows : r.proposal_type = p.type /\ r.proposal_id = p.id /\ ~r.cancelled}

Unhooked == ~HasAttr(last.cnt) /\ ~HasAttr(last.lst)

\* C1: without hooks, iterating P.speakers yields one PrimarySpeaker wrapping
\* P first (also when P is cancelled), then exactly the non-cancelled rows of
\* P, each once, in (proposal_type, proposal_id, pk) order.
C1_SpeakersSequence ==
    (last.op = "speakers" /\ Unhooked) =>
        LET items == last.result.items
            p == last.proposal
            n == Len(items)
        IN /\ n >= 1
           /\ items[1] = [cls |-> "PrimarySpeaker",
                          user |-> proposals[p].submitter, proposal |-> p]
           /\ n = 1 + Cardinality(LiveRowsOf(p))
           /\ {items[i] : i \in 2..n} = LiveRowsOf(p)
           /\ \A i \in 2..n : \A j \in 2..n : i < j =>
                \/ items[i].proposal_type < items[j].proposal_type
                \/ /\ items[i].proposal_type = items[j].proposal_type
                   /\ items[i].proposal_id < items[j].proposal_id
                \/ /\ items[i].proposal_type = items[j].proposal_type
                   /\ items[i].proposal_id = items[j].proposal_id
                   /\ items[i].pk < items[j].pk

\* C1 witness: speakers was read on a cancelled proposal that has a cancelled
\* and a non-cancelled co-speaker row.
C1_Witness ==
    /\ last.op = "speakers" /\ Unhooked
    /\ proposals[last.proposal].cancelled
    /\ Len(last.result.items) = 2
    /\ \E r \in additionalspeaker_set(last.proposal) : r.cancelled

\* C2: P.speaker_count is 1 plus the number of non-cancelled rows of P.
C2_SpeakerCount ==
    (last.op = "speaker_count" /\ ~HasAttr(last.cnt)) =>
        last.result.count = 1 + Cardinality(LiveRowsOf(last.proposal))

\* C2 witness: speaker_count was read on a proposal with a cancelled and a
\* non-cancelled row, and returned 2.
C2_Witness ==
    /\ last.op = "speaker_count" /\ ~HasAttr(last.cnt)
    /\ last.result.count = 2
    /\ \E r \in additionalspeaker_set(last.proposal) : r.cancelled

\* C10: without hooks and with no write in between, P.speaker_count equals
\* the number of items P.speakers yields.
C10_CountMatchesIteration ==
    /\ (last.op = "speakers" /\ Unhooked) =>
          Len(last.result.items) = speaker_count(last.proposal, NoAttr, NoAttr).count
    /\ (last.op = "speaker_count" /\ Unhooked) =>
          last.result.count = Len(speakers(last.proposal, NoAttr, NoAttr).items)

\* C10 witness: speakers yielded three items (the author and two co-speakers).
C10_Witness ==
    /\ last.op = "speakers" /\ Unhooked
    /\ Len(last.result.items) = 3

\* Some stored row already holds (user u, proposal p).
Invited(u, p) ==
    \E r \in rows : r.user = u /\ r.proposal_type = p.type /\ r.proposal_id = p.id

C5_AtMostOneRow ==
    \A r1 \in rows : \A r2 \in rows :
        (/\ r1.user = r2.user
         /\ r1.proposal_type = r2.proposal_type
         /\ r1.proposal_id = r2.proposal_id) => r1 = r2

C5_CreateStep ==
    last'.op = "create" =>
        IF Invited(last'.user, last'.proposal)
        THEN last'.result = "IntegrityError" /\ rows' = rows
        ELSE /\ last'.result = "created"
             /\ \E r \in rows' :
                  /\ rows' = rows \cup {r}
                  /\ r.user = last'.user
                  /\ r.proposal_type = last'.proposal.type
                  /\ r.proposal_id = last'.proposal.id

\* C5: there is never more than one row per (user, proposal_type,
\* proposal_id); creating a row for a pair that already has one (cancelled,
\* declined or not) raises IntegrityError and leaves the table unchanged, and
\* any other creation (the other variant with the same id included) succeeds.
C5_UniqueInvitation == [](C5_AtMostOneRow) /\ [][C5_CreateStep]_vars

\* C5 witness: a creation was refused although the row in its way is
\* cancelled and declined.
C5_Witness ==
    /\ last.op = "create"
    /\ last.result = "IntegrityError"
    /\ \E r \in additionalspeaker_set(last.proposal) :
          /\ r.user = last.user
          /\ r.cancelled
          /\ r.status = SPEAKING_STATUS_DECLINED

\* The attributes of the instance read last hold what the documented
\* precomputation gives in the current state of the table.
Precomputed ==
    /\ HasAttr(last.cnt) => GetAttr(last.cnt) = Cardinality(LiveRowsOf(last.proposal))
    /\ HasAttr(last.lst) => GetAttr(last.lst) = Prefetched(last.proposal)

SameAsUnhooked ==
    /\ last.op = "speakers" =>
          last.result.items = speakers(last.proposal, NoAttr, NoAttr).items
    /\ last.op = "speaker_count" =>
          last.result.count = speaker_count(last.proposal, NoAttr, NoAttr).count

\* C3 as stated: with a precomputed count, list or both, the results are
\* those of the unhooked path and no read issues a lookup.
C3_NeverLooksUp ==
    (/\ last.op \in {"speakers", "speaker_count"}
     /\ HasAttr(last.cnt) \/ HasAttr(last.lst)
     /\ Precomputed) =>
        SameAsUnhooked /\ last.result.lookups = 0

\* C3 amended: with a precomputed count, list or both, the results are those
\* of the unhooked path; speakers issues no lookup exactly when the list is
\* supplied or the supplied count is below 1, and speaker_count issues none
\* exactly when the count is supplied; otherwise each issues one lookup.
C3_HooksUsedWhereTheyApply ==
    (/\ last.op \in {"speakers", "speaker_count"}
     /\ HasAttr(last.cnt) \/ HasAttr(last.lst)
     /\ Precomputed) =>
        /\ SameAsUnhooked
        /\ last.op = "speakers" =>
              last.result.lookups =
                  IF HasAttr(last.lst) \/ (HasAttr(last.cnt) /\ GetAttr(last.cnt) < 1)
                  THEN 0 ELSE 1
        /\ last.op = "speaker_count" =>
              last.result.lookups = IF HasAttr(last.cnt) THEN 0 ELSE 1

\* C3 witness: speakers was read with both attributes precomputed on a
\* proposal with two live co-speakers, and issued no lookup.
C3_Witness ==
    /\ last.op = "speakers"
    /\ HasAttr(last.cnt) /\ HasAttr(last.lst)
    /\ Precomputed
    /\ Len(last.result.items) = 3
    /\ last.result.lookups = 0

\* u submitted p or holds a co-speaker record on p.
Related(u, p) == proposals[p].submitter = u \/ Invited(u, p)

\* C4: a proposal submitted by u, or on which u has a co-speaker record of any
\* status and cancelled flag, is in filter_viewable(u) and not in
\* filter_reviewable(u), cancelled or not; a non-cancelled proposal with no
\* such relation is in filter_reviewable(u) and not in filter_viewable(u); the
\* two results never share a proposal.
C4_ViewableReviewable ==
    /\ last.op = "filter_viewable" =>
          \A p \in Table(last.type) :
             /\ Related(last.user, p) => InQuerySet(last.result, p)
             /\ (~proposals[p].cancelled /\ ~Related(last.user, p)) =>
                   ~InQuerySet(last.result, p)
             /\ ~(/\ InQuerySet(last.result, p)
                  /\ InQuerySet(filter_reviewable(last.type, last.user), p))
    /\ last.op = "filter_reviewable" =>
          \A p \in Table(last.type) :
             /\ Related(last.user, p) => ~InQuerySet(last.result, p)
             /\ (~proposals[p].cancelled /\ ~Related(last.user, p)) =>
                   InQuerySet(last.result, p)
             /\ ~(/\ InQuerySet(last.result, p)
                  /\ InQuerySet(filter_viewable(last.type, last.user), p))

\* C4 witness: filter_reviewable left out a cancelled proposal of somebody
\* else on which the user holds only a cancelled, declined co-speaker record,
\* while the same user holds a live record on the other variant's proposal
\* with the same id.
C4_Witness ==
    /\ last.op = "filter_reviewable"
    /\ \E p \in Table(last.type) :
          /\ proposals[p].submitter # last.user
          /\ proposals[p].cancelled
          /\ ~InQuerySet(last.result, p)
          /\ \E r \in additionalspeaker_set(p) :
                r.user = last.user /\ r.cancelled /\ r.status = SPEAKING_STATUS_DECLINED
          /\ \E r \in rows :
                r.user = last.user /\ r.proposal_type # p.type /\ ~r.cancelled

\* C6: filter_accepted holds exactly the proposals that are not cancelled and
\* whose accepted flag is true.
C6_FilterAccepted ==
    last.op = "filter_accepted" =>
        \A p \in Table(last.type) :
           /\ proposals[p].cancelled => ~InQuerySet(last.result, p)
           /\ proposals[p].accepted \in {"None", "False"} => ~InQuerySet(last.result, p)
           /\ (~proposals[p].cancelled /\ proposals[p].accepted = "True") =>
                 last.result[p] = 1

\* C6 witness: filter_accepted left out a proposal that is accepted and cancelled.
C6_Witness ==
    /\ last.op = "filter_accepted"
    /\ \E p \in Table(last.type) :
          /\ proposals[p].cancelled
          /\ proposals[p].accepted = "True"
          /\ ~InQuerySet(last.result, p)

\* The number of the five mandatory fields that are not empty.
Filled ==
    Cardinality({f \in {"abstract", "objective", "supplementary",
                        "detailed_description", "outline"} : fields[f] # ""})

\* C7: finished_fields_count is the number of non-empty mandatory fields and
\* finish_percentage is 100 times it floor-divided by 5: 0, 20, 40, 60, 80 or
\* 100 for 0, 1, 2, 3, 4 or 5 filled fields.
C7_FinishPercentage ==
    /\ last.op = "finished_fields_count" => last.result = Filled
    /\ last.op = "finish_percentage" =>
          /\ last.result = (100 * Filled) \div 5
          /\ last.result = 20 * Filled
          /\ last.result \in {0, 20, 40, 60, 80, 100}

\* C7 witness: finish_percentage returned 40 with objective and outline
\* filled and the other three fields empty.
C7_Witness ==
    /\ last.op = "finish_percentage"
    /\ last.result = 40
    /\ fields["objective"] # "" /\ fields["outline"] # ""
    /\ fields["abstract"] = "" /\ fields["supplementary"] = ""
    /\ fields["detailed_description"] = ""

\* C8: a PrimarySpeaker equals another PrimarySpeaker exactly when both wrap
\* the same user and the same proposal, and never equals an object of
\* another class.
C8_Equality ==
    last.op = "eq" =>
        /\ rhs.cls = "PrimarySpeaker" =>
              (last.result <=> (lhs.user = rhs.user /\ lhs.proposal = rhs.proposal))
        /\ rhs.cls # "PrimarySpeaker" => ~last.result

\* C8 witness: two PrimarySpeaker instances of the same user on different
\* proposals compared unequal.
C8_Witness ==
    /\ last.op = "eq"
    /\ rhs.cls = "PrimarySpeaker"
    /\ lhs.user = rhs.user
    /\ lhs.proposal # rhs.proposal
    /\ ~last.result

C9_ConstructStep ==
    last'.op = "construct" =>
        LET slot == IF last'.left THEN lhs' ELSE rhs'
        IN IF last'.proposal = NoProposal /\ last'.user = NoUser
           THEN last'.result = "ValueError" /\ lhs' = lhs /\ rhs' = rhs
           ELSE /\ last'.result = "PrimarySpeaker"
                /\ slot.cls = "PrimarySpeaker"
                /\ slot.proposal = last'.proposal
                /\ slot.user = IF last'.user # NoUser THEN last'.user
                               ELSE proposals[last'.proposal].submitter

\* C9: PrimarySpeaker() with neither a proposal nor a user raises ValueError
\* and yields no instance; with at least one of them it yields an instance
\* whose user is the given user, or the proposal's submitter when none is given.
C9_Construction == [][C9_ConstructStep]_vars

\* C9 witness: the constructor raised ValueError.
C9_Witness == last.op = "construct" /\ last.result = "ValueError"

====
